---- MODULE Spec2Model ----
(***************************************************************************)
(* Model of the two components of the repository.                          *)
(*                                                                         *)
(*  - The client-side script of the dashboard page embedded in             *)
(*    src/esp32_web_interface.h (initBoard, updatePinStates, setPinState,  *)
(*    toggleAutoScroll, clearSerial, updateSerial and the two setInterval  *)
(*    timers), together with the network and the device behind the three   *)
(*    HTTP endpoints.                                                      *)
(*      Spec       : the whole page over a network that delays, reorders   *)
(*                   and drops, talking to a device that lists its pins    *)
(*                   in the documented form.                               *)
(*      SpecRender : the pin panel over a prompt network, talking to a     *)
(*                   device that may answer with any list of entries.      *)
(*                                                                         *)
(*  - app_main of src/firmware/firebeetle_esp32c6/main/main.cpp, the       *)
(*    sampling loop with its heartbeat output.  Specification: SpecFw.     *)
(***************************************************************************)
EXTENDS Integers, Sequences, FiniteSets, TLC

VARIABLES
    \* ---- browser page (esp32_web_interface.h, the <script> block) ----
    autoScroll,     \* let autoScroll
    btnLabel,       \* innerText of #autoScrollBtn
    markers,        \* pin number -> the marker #pin-<n> carries class pin-active
    controls,       \* children of #pinControls, in document order
    serialMonitor,  \* innerHTML of #serialMonitor
    scrollTop,      \* scroll position of #serialMonitor: "top" or "end"
    timers,         \* callbacks registered by setInterval
    \* ---- network and device (external collaborator) ----
    pinsReqs,       \* GET /api/pins requests in flight, oldest first
    postReqs,       \* POST /api/pin-control requests in flight, oldest first
    serialReqs,     \* number of GET /api/serial requests in flight
    devLevel,       \* device side: pin -> "HIGH" | "LOW"
    \* ---- bookkeeping used to state the properties ----
    shown,          \* the /api/pins response most recently processed
    last,           \* the handler that ran in the step leading to this state, and
                    \* what it wrote with console.error
    \* ---- firmware (main.cpp, app_main) ----
    fw

pageVars == <<autoScroll, btnLabel, markers, controls, serialMonitor, scrollTop>>
netVars == <<pinsReqs, postReqs, serialReqs>>
vars == <<pageVars, timers, netVars, devLevel, shown, last, fw>>

-----------------------------------------------------------------------------
(* Bounds of the model *)

\* number of requests the browser keeps in flight at once
MaxInFlight == 2
\* longest /api/serial response, in log lines
MaxLines == 2
\* longest time, in ms, the loop body of app_main takes outside its delays
MaxWork == 1
\* the counts of pulses and of telemetry lines are kept up to this value
MaxCount == 3

-----------------------------------------------------------------------------
(* Static data *)

\* BOARD_CONFIG.pins[*].pin: the pins that get a marker in initBoard
BoardPins == {36, 39, 34, 35, 32, 33, 25, 26, 27, 14, 12, 13,
              2, 15, 0, 4, 16, 17, 5, 18, 19, 21, 3, 1, 22, 23}

\* Pins the device reports, in the order of its response: 2 has a marker on
\* the board, 6 has none.
DevPins == <<2, 6>>

DevPinSet == {DevPins[i] : i \in 1..Len(DevPins)}

\* Values of the "type" field of an entry
PinTypes == {"gpio_write", "gpio_read"}

\* Log lines the device may return
LogLines == {"a"}

\* JSON values of the "state" field: a string or a number.  JavaScript's ===
\* distinguishes the two, so the kind is part of the value.
JsStr(s) == [t |-> "string", v |-> s]
JsNum(n) == [t |-> "number", v |-> IF n = 1 THEN "1" ELSE "0"]

\* The leading arrow emoji of the auto-scroll label (lines 135 and 233)
ARROW == "[v] "

\* children of #pinControls: the heading (176), a control block (192-204),
\* the placeholder paragraph (208)
HEADER == [tag |-> "h4", pin |-> 0, high |-> "", low |-> ""]
PLACEHOLDER == [tag |-> "p", pin |-> 0, high |-> "", low |-> ""]

\* shown before any response has been processed
NoData == [seen |-> FALSE, data |-> [hasPins |-> FALSE, pins |-> <<>>],
           stale |-> FALSE, before |-> "empty", lit |-> {}]

Op(name) == [op |-> name, pin |-> 0, value |-> "", error |-> ""]

\* a step of the device, which runs no handler of the page
Device == Op("device")

\* the levels field of a request the device has not answered yet
NoLevels == [p \in DevPinSet |-> "LOW"]

RemoveAt(q, i) == SubSeq(q, 1, i - 1) \o SubSeq(q, i + 1, Len(q))

InFlight == Len(pinsReqs) + Len(postReqs) + serialReqs

-----------------------------------------------------------------------------
(* What the device may answer *)

\* How the device writes a level in a response: as a string or as a number
StateReprs(level) ==
    IF level = "HIGH" THEN {JsStr("HIGH"), JsNum(1)} ELSE {JsStr("LOW"), JsNum(0)}

\* All entry lists over the pins DevPins[i..], each pin present or absent
RECURSIVE EntryLists(_, _)
EntryLists(levels, i) ==
    IF i > Len(DevPins) THEN {<<>>}
    ELSE LET rest == EntryLists(levels, i + 1)
             p == DevPins[i]
             here == {[pin |-> p, state |-> s, type |-> ty] :
                         s \in StateReprs(levels[p]), ty \in PinTypes}
         IN rest \cup {<<e>> \o r : e \in here, r \in rest}

\* Bodies of GET /api/pins for the device levels `levels`: any list of
\* entries, or an object without a pins field
PinsResponses(levels) ==
    {[hasPins |-> TRUE, pins |-> ps] : ps \in EntryLists(levels, 1)}
    \cup {[hasPins |-> FALSE, pins |-> <<>>]}

\* The body a plain device sends: every pin listed with its level as a
\* string, the first as an output (gpio_write), the others as inputs
PlainResponses(levels) ==
    {[hasPins |-> TRUE,
      pins |-> [i \in 1..Len(DevPins) |->
                  [pin |-> DevPins[i], state |-> JsStr(levels[DevPins[i]]),
                   type |-> IF i = 1 THEN "gpio_write" ELSE "gpio_read"]]]}

RECURSIVE SeqsUpTo(_, _)
SeqsUpTo(S, n) ==
    IF n = 0 THEN {<<>>}
    ELSE LET shorter == SeqsUpTo(S, n - 1)
         IN shorter \cup {Append(q, x) : q \in {r \in shorter : Len(r) = n - 1}, x \in S}

\* Bodies of GET /api/serial
SerialResponses == SeqsUpTo(LogLines, MaxLines)

-----------------------------------------------------------------------------
(* updatePinStates, lines 175-209: the rendering of a response *)

\* lines 181-188
MarkerAfterBug(m, e) ==
    IF e.pin \in BoardPins
    THEN IF e.state = JsStr("HIGH") \/ e.state = JsNum(1)
         THEN [m EXCEPT ![e.pin] = TRUE]
         ELSE m
    ELSE m
MarkerAfter(m, e) ==
    IF e.pin \in BoardPins
    THEN IF e.state = JsStr("HIGH") \/ e.state = JsNum(1)
         THEN [m EXCEPT ![e.pin] = TRUE]
         ELSE [m EXCEPT ![e.pin] = FALSE]
    ELSE m

\* lines 192-203
ControlBlock(e) ==
    [tag |-> "pin-control", pin |-> e.pin,
     high |-> IF e.state = JsStr("HIGH") THEN "btn-success" ELSE "btn-secondary",
     low |-> IF e.state = JsStr("LOW") THEN "btn-danger" ELSE "btn-secondary"]

\* lines 179-206: data.pins.forEach
RECURSIVE ForEachPin(_, _, _)
ForEachPin(m, c, ps) ==
    IF ps = <<>> THEN [markers |-> m, controls |-> c]
    ELSE LET e == Head(ps)
         IN ForEachPin(MarkerAfter(m, e),
                       IF e.type = "gpio_write" THEN Append(c, ControlBlock(e)) ELSE c,
                       Tail(ps))

\* lines 175-209; the previous children of #pinControls are discarded (176)
RenderPinsKeep(m, c, data) ==
    IF data.hasPins /\ Len(data.pins) > 0
    THEN ForEachPin(m, IF c = <<>> THEN <<HEADER>> ELSE c, data.pins)
    ELSE [markers |-> m, controls |-> Append(c, PLACEHOLDER)]
RenderPins(m, c, data) ==
    IF data.hasPins /\ Len(data.pins) > 0
    THEN ForEachPin(m, <<HEADER>>, data.pins)
    ELSE [markers |-> m, controls |-> <<HEADER, PLACEHOLDER>>]

-----------------------------------------------------------------------------
(* updateSerial, lines 244-246 *)

\* Array.prototype.join
RECURSIVE Join(_, _)
Join(lines, sep) ==
    IF lines = <<>> THEN ""
    ELSE IF Len(lines) = 1 THEN lines[1]
    ELSE lines[1] \o sep \o Join(Tail(lines), sep)

\* line 246
ScrollAfter(flag, pos) == IF flag THEN "end" ELSE pos

-----------------------------------------------------------------------------
(* toggleAutoScroll, lines 231-234 *)

LabelFor(flag) == ARROW \o "Auto-scroll: " \o (IF flag THEN "ON" ELSE "OFF")

toggleResultStale(flag) == [autoScroll |-> ~flag, label |-> LabelFor(flag)]
toggleResult(flag) == [autoScroll |-> ~flag, label |-> LabelFor(~flag)]

-----------------------------------------------------------------------------
(* Initial state: the page has loaded and its script has run to the end    *)
(* (lines 141-143 and 250-252); main.cpp has not started.                  *)

\* main.cpp, line 17: app_main is entered; nothing has run
FwInit ==
    [pc |-> "start", led |-> 0, elapsed |-> 0, highFor |-> 0, lowFor |-> 0,
     period |-> 0, prevPeriod |-> 0, pulses |-> 0, lines |-> 0, adc_raw |-> 0,
     logged |-> [sensor |-> "", value |-> 0],
     initFailed |-> FALSE, readFailed |-> FALSE]

Init ==
    /\ autoScroll = TRUE                                  \* line 142
    /\ btnLabel = ARROW \o "Auto-scroll: ON"              \* line 135
    /\ markers = [p \in BoardPins |-> FALSE]              \* initBoard, 148-164
    /\ controls = <<>>                                    \* line 110
    /\ serialMonitor = "Connecting..."                    \* line 132
    /\ scrollTop = "top"
    /\ timers = {"updateSerial", "updatePinStates"}       \* lines 251-252
    \* initBoard ends by calling updatePinStates (line 167)
    /\ pinsReqs = <<[phase |-> "sent", levels |-> NoLevels, older |-> FALSE]>>
    /\ postReqs = <<>>
    /\ serialReqs = 0
    /\ devLevel \in [DevPinSet -> {"HIGH", "LOW"}]
    /\ shown = NoData
    /\ last = Op("load")
    /\ fw = FwInit

-----------------------------------------------------------------------------
(* updatePinStates, lines 170-213 *)

\* line 172: fetch('/api/pins') puts one request on the network.  older:
\* the request was issued before the one whose response is on display.
FetchPins ==
    Append(pinsReqs, [phase |-> "sent", levels |-> NoLevels, older |-> FALSE])

\* line 252: setInterval(updatePinStates, 3000)
PinsTimer ==
    /\ "updatePinStates" \in timers
    /\ InFlight < MaxInFlight
    /\ pinsReqs' = FetchPins
    /\ last' = Op("PinsTimer")
    /\ UNCHANGED <<pageVars, timers, postReqs, serialReqs, devLevel, shown, fw>>

\* the device answers GET /api/pins with its levels of that moment
ServePins(i) ==
    /\ pinsReqs[i].phase = "sent"
    /\ pinsReqs' = [pinsReqs EXCEPT ![i].phase = "answered", ![i].levels = devLevel]
    /\ last' = Device
    /\ UNCHANGED <<pageVars, timers, postReqs, serialReqs, devLevel, shown, fw>>

\* what #pinControls holds: nothing, control blocks, the placeholder, or
\* the heading alone
PanelKind(c) ==
    IF c = <<>> THEN "empty"
    ELSE IF \E k \in 1..Len(c) : c[k].tag = "pin-control" THEN "controls"
    ELSE IF \E k \in 1..Len(c) : c[k].tag = "p" THEN "placeholder"
    ELSE "heading"

\* the requests still in flight once the response to the i-th is on display
AfterShown(q, i) ==
    [j \in 1..(Len(q) - 1) |->
        IF j < i THEN [q[j] EXCEPT !.older = TRUE]
        ELSE [q[j + 1] EXCEPT !.older = FALSE]]

\* lines 172-209: both awaits resolve and the response is rendered.
\* shown.stale: the request was issued before the one whose response this
\* one replaces; shown.before, shown.lit: the panel and the highlighted
\* markers as the response found them.
PinsResolvedClearsLog(i, data) ==
    /\ pinsReqs[i].phase = "answered"
    /\ LET out == RenderPins(markers, controls, data)
       IN /\ markers' = out.markers
          /\ controls' = out.controls
    /\ pinsReqs' = AfterShown(pinsReqs, i)
    /\ shown' = [seen |-> TRUE, data |-> data, stale |-> pinsReqs[i].older,
                 before |-> PanelKind(controls),
                 lit |-> {p \in BoardPins : markers[p]}]
    /\ serialMonitor' = ""
    /\ last' = Op("PinsResolved")
    /\ UNCHANGED <<autoScroll, btnLabel, scrollTop, timers,
                   postReqs, serialReqs, devLevel, fw>>
PinsResolved(i, data) ==
    /\ pinsReqs[i].phase = "answered"
    /\ LET out == RenderPins(markers, controls, data)
       IN /\ markers' = out.markers
          /\ controls' = out.controls
    /\ pinsReqs' = AfterShown(pinsReqs, i)
    /\ shown' = [seen |-> TRUE, data |-> data, stale |-> pinsReqs[i].older,
                 before |-> PanelKind(controls),
                 lit |-> {p \in BoardPins : markers[p]}]
    /\ last' = Op("PinsResolved")
    /\ UNCHANGED <<autoScroll, btnLabel, serialMonitor, scrollTop, timers,
                   postReqs, serialReqs, devLevel, fw>>

\* lines 210-212: fetch or response.json() rejected
CatchPinsClear(c) == <<>>
CatchPins(c) == c

PinsRejected(i) ==
    /\ pinsReqs' = RemoveAt(pinsReqs, i)
    /\ controls' = CatchPins(controls)
    /\ last' = [Op("PinsRejected") EXCEPT !.error = "Failed to fetch pin states"]
    /\ UNCHANGED <<autoScroll, btnLabel, markers, serialMonitor, scrollTop, timers,
                   postReqs, serialReqs, devLevel, shown, fw>>

-----------------------------------------------------------------------------
(* setPinState, lines 215-229 *)

\* lines 217-221: the body of the POST
PostBody(pin, value) == [pin |-> pin, value |-> value]

\* a click on the HIGH or LOW button of the i-th child of #pinControls
\* (onclick attributes of lines 200 and 202)
Click(i, value) ==
    /\ controls[i].tag = "pin-control"
    /\ InFlight < MaxInFlight
    /\ LET body == PostBody(controls[i].pin, value)
       IN postReqs' = Append(postReqs, [pin |-> body.pin, value |-> body.value,
                                        phase |-> "sent", ok |-> FALSE])
    /\ last' = [Op("Click") EXCEPT !.pin = controls[i].pin, !.value = value]
    /\ UNCHANGED <<pageVars, timers, pinsReqs, serialReqs, devLevel, shown, fw>>

\* the device answers POST /api/pin-control: 2xx and the pin is set, or
\* non-2xx and nothing changes
ServePost(i, ok) ==
    /\ postReqs[i].phase = "sent"
    /\ postReqs' = [postReqs EXCEPT ![i].phase = "answered", ![i].ok = ok]
    /\ devLevel' = IF ok /\ postReqs[i].pin \in DevPinSet
                   THEN [devLevel EXCEPT ![postReqs[i].pin] = postReqs[i].value]
                   ELSE devLevel
    /\ last' = Device
    /\ UNCHANGED <<pageVars, timers, pinsReqs, serialReqs, shown, fw>>

\* lines 223-225
RefetchAlways(ok) == TRUE
Refetch(ok) == ok

\* lines 217-225: the fetch resolves
PostResolved(i) ==
    /\ postReqs[i].phase = "answered"
    /\ postReqs' = RemoveAt(postReqs, i)
    /\ pinsReqs' = IF Refetch(postReqs[i].ok) THEN FetchPins ELSE pinsReqs
    /\ last' = Op(IF postReqs[i].ok THEN "PostResolvedOk" ELSE "PostResolvedNotOk")
    /\ UNCHANGED <<pageVars, timers, serialReqs, devLevel, shown, fw>>

\* lines 226-228: the fetch rejected
PostRejected(i) ==
    /\ postReqs' = RemoveAt(postReqs, i)
    /\ last' = [Op("PostRejected") EXCEPT !.error = "Failed to set pin"]
    /\ UNCHANGED <<pageVars, timers, pinsReqs, serialReqs, devLevel, shown, fw>>

-----------------------------------------------------------------------------
(* updateSerial, lines 240-248, and its timer *)

\* line 251: setInterval(updateSerial, 2000); line 242: fetch('/api/serial')
SerialTimer ==
    /\ "updateSerial" \in timers
    /\ InFlight < MaxInFlight
    /\ serialReqs' = serialReqs + 1
    /\ last' = Op("SerialTimer")
    /\ UNCHANGED <<pageVars, timers, pinsReqs, postReqs, devLevel, shown, fw>>

\* lines 242-246
SerialResolved(logs) ==
    /\ serialReqs > 0
    /\ serialReqs' = serialReqs - 1
    /\ serialMonitor' = Join(logs, "<br>")
    /\ scrollTop' = ScrollAfter(autoScroll, scrollTop)
    /\ last' = Op("SerialResolved")
    /\ UNCHANGED <<autoScroll, btnLabel, markers, controls, timers,
                   pinsReqs, postReqs, devLevel, shown, fw>>

\* line 247: fetch or response.json() rejected, or the body is not an array
\* and logs.join throws before anything is assigned
SerialRejected ==
    /\ serialReqs > 0
    /\ serialReqs' = serialReqs - 1
    /\ last' = [Op("SerialRejected") EXCEPT !.error = "Serial update failed"]
    /\ UNCHANGED <<pageVars, timers, pinsReqs, postReqs, devLevel, shown, fw>>

-----------------------------------------------------------------------------
(* toggleAutoScroll (231-234) and clearSerial (236-238) *)

toggleAutoScroll ==
    /\ LET out == toggleResult(autoScroll)
       IN /\ autoScroll' = out.autoScroll
          /\ btnLabel' = out.label
    /\ last' = Op("toggleAutoScroll")
    /\ UNCHANGED <<markers, controls, serialMonitor, scrollTop, timers,
                   netVars, devLevel, shown, fw>>

clearSerial ==
    /\ serialMonitor' = ""
    /\ last' = Op("clearSerial")
    /\ UNCHANGED <<autoScroll, btnLabel, markers, controls, scrollTop, timers,
                   netVars, devLevel, shown, fw>>

-----------------------------------------------------------------------------
(* The whole page; the network delays, reorders and drops *)

Next ==
    \/ PinsTimer
    \/ \E i \in 1..Len(pinsReqs) : ServePins(i)
    \/ \E i \in 1..Len(pinsReqs) :
          \E data \in PlainResponses(pinsReqs[i].levels) : PinsResolved(i, data)
    \/ \E i \in 1..Len(pinsReqs) : PinsRejected(i)
    \/ \E i \in 1..Len(controls) : \E value \in {"HIGH", "LOW"} : Click(i, value)
    \/ \E i \in 1..Len(postReqs) : \E ok \in BOOLEAN : ServePost(i, ok)
    \/ \E i \in 1..Len(postReqs) : PostResolved(i)
    \/ \E i \in 1..Len(postReqs) : PostRejected(i)
    \/ SerialTimer
    \/ \E logs \in SerialResponses : SerialResolved(logs)
    \/ SerialRejected
    \/ toggleAutoScroll
    \/ clearSerial

Spec == Init /\ [][Next]_vars

-----------------------------------------------------------------------------
(* The pin panel; the network is prompt (a request is issued when none is  *)
(* in flight) and the device answers with any list of entries              *)

Idle == InFlight = 0

NextRender ==
    \/ Idle /\ PinsTimer
    \/ \E i \in 1..Len(pinsReqs) : ServePins(i)
    \/ \E i \in 1..Len(pinsReqs) :
          \E data \in PinsResponses(pinsReqs[i].levels) : PinsResolved(i, data)
    \/ \E i \in 1..Len(pinsReqs) : PinsRejected(i)
    \/ \E i \in 1..Len(controls) : \E value \in {"HIGH", "LOW"} : Idle /\ Click(i, value)
    \/ \E i \in 1..Len(postReqs) : \E ok \in BOOLEAN : ServePost(i, ok)
    \/ \E i \in 1..Len(postReqs) : PostResolved(i)
    \/ \E i \in 1..Len(postReqs) : PostRejected(i)

SpecRender == Init /\ [][NextRender]_vars

-----------------------------------------------------------------------------
(* app_main, main.cpp lines 17-70.                                         *)
(*                                                                         *)
(* fw.pc is the statement about to run.  Time is counted in ms:            *)
(* fw.elapsed is the time since the last rising edge of the output,        *)
(* fw.highFor and fw.lowFor the lengths of the last completed high and low *)
(* phases, fw.period and fw.prevPeriod the distances between the last      *)
(* three rising edges (0: not measured yet).  fw.pulses and fw.lines count *)
(* rising edges and telemetry lines, up to MaxCount.                       *)

\* lines 52 and 54: vTaskDelay(pdMS_TO_TICKS(100)), vTaskDelay(pdMS_TO_TICKS(900))
HighMs == 100
LowMs == 900

BlinkDelaysSwapped == [high |-> LowMs, low |-> HighMs]
BlinkDelays == [high |-> HighMs, low |-> LowMs]

\* raw readings of the 12-bit converter
AdcRaws == {0, 2048, 4095}

\* ESP_ERROR_CHECK (lines 36, 42, 58): abort() unless the call returned ESP_OK
EspErrorCheckIgnored(ok, next) == next
EspErrorCheck(ok, next) == IF ok THEN next ELSE "aborted"

\* line 62: (adc_raw / 4095.0) * 3.3 * 2, here in millivolts, rounded down
Voltage(raw) == (raw * 6600) \div 4095

Count(n) == IF n < MaxCount THEN n + 1 ELSE n

\* lines 19-28: the start-up log line and gpio_config, whose result is not checked
GpioInit ==
    /\ fw.pc = "start"
    /\ fw' = [fw EXCEPT !.pc = "adc_oneshot_new_unit", !.led = 0]
    /\ UNCHANGED <<pageVars, timers, netVars, devLevel, shown, last>>

\* lines 31-36
AdcNewUnit(ok) ==
    /\ fw.pc = "adc_oneshot_new_unit"
    /\ fw' = [fw EXCEPT !.pc = EspErrorCheck(ok, "adc_oneshot_config_channel"),
                        !.initFailed = @ \/ ~ok]
    /\ UNCHANGED <<pageVars, timers, netVars, devLevel, shown, last>>

\* lines 38-47: the channel is configured and the JSON document is filled
AdcConfigChannel(ok) ==
    /\ fw.pc = "adc_oneshot_config_channel"
    /\ fw' = [fw EXCEPT !.pc = EspErrorCheck(ok, "gpio_set_level_1"),
                        !.initFailed = @ \/ ~ok,
                        !.logged = IF EspErrorCheck(ok, "") = "aborted" THEN @
                                   ELSE [sensor |-> "battery", value |-> 0]]
    /\ UNCHANGED <<pageVars, timers, netVars, devLevel, shown, last>>

\* line 51: a rising edge
LedOn ==
    /\ fw.pc = "gpio_set_level_1"
    /\ fw' = [fw EXCEPT !.pc = "delay_high", !.led = 1,
                        !.pulses = Count(@),
                        !.lowFor = IF fw.pulses = 0 THEN 0 ELSE fw.elapsed - fw.highFor,
                        !.prevPeriod = fw.period,
                        !.period = IF fw.pulses = 0 THEN 0 ELSE fw.elapsed,
                        !.elapsed = 0]
    /\ UNCHANGED <<pageVars, timers, netVars, devLevel, shown, last>>

\* line 52
DelayHigh ==
    /\ fw.pc = "delay_high"
    /\ fw' = [fw EXCEPT !.pc = "gpio_set_level_0", !.elapsed = @ + BlinkDelays.high]
    /\ UNCHANGED <<pageVars, timers, netVars, devLevel, shown, last>>

\* line 53: the falling edge
LedOff ==
    /\ fw.pc = "gpio_set_level_0"
    /\ fw' = [fw EXCEPT !.pc = "delay_low", !.led = 0, !.highFor = fw.elapsed]
    /\ UNCHANGED <<pageVars, timers, netVars, devLevel, shown, last>>

\* line 54
DelayLow ==
    /\ fw.pc = "delay_low"
    /\ fw' = [fw EXCEPT !.pc = "adc_oneshot_read", !.elapsed = @ + BlinkDelays.low]
    /\ UNCHANGED <<pageVars, timers, netVars, devLevel, shown, last>>

\* lines 57-58: the read, checked by ESP_ERROR_CHECK
AdcRead(ok, raw) ==
    /\ fw.pc = "adc_oneshot_read"
    /\ fw' = [fw EXCEPT !.pc = EspErrorCheck(ok, "log"),
                        !.readFailed = @ \/ ~ok,
                        !.adc_raw = IF ok THEN raw ELSE @]
    /\ UNCHANGED <<pageVars, timers, netVars, devLevel, shown, last>>

\* lines 62-68: the telemetry line; work is the time the body of the loop
\* took outside the two delays (the delays are relative, line 52 and 54)
LogTelemetry(work) ==
    /\ fw.pc = "log"
    /\ fw' = [fw EXCEPT !.pc = "gpio_set_level_1",
                        !.logged = [sensor |-> "battery", value |-> Voltage(fw.adc_raw)],
                        !.lines = Count(@),
                        !.elapsed = @ + work]
    /\ UNCHANGED <<pageVars, timers, netVars, devLevel, shown, last>>

NextFw ==
    \/ GpioInit
    \/ \E ok \in BOOLEAN : AdcNewUnit(ok)
    \/ \E ok \in BOOLEAN : AdcConfigChannel(ok)
    \/ LedOn
    \/ DelayHigh
    \/ LedOff
    \/ DelayLow
    \/ \E ok \in BOOLEAN : \E raw \in AdcRaws : AdcRead(ok, raw)
    \/ \E work \in 0..MaxWork : LogTelemetry(work)

\* app_main is the only task: it runs whenever it can
SpecFw == Init /\ [][NextFw]_vars /\ WF_vars(NextFw)

-----------------------------------------------------------------------------
(* Properties *)

IsHigh(state) == state \in {JsStr("HIGH"), JsNum(1)}
IsLow(state) == state \in {JsStr("LOW"), JsNum(0)}

\* the entries of the displayed response that are gpio_write pins, and the
\* control blocks of the panel
WriteEntries == SelectSeq(shown.data.pins, LAMBDA e : e.type = "gpio_write")
Blocks == SelectSeq(controls, LAMBDA b : b.tag = "pin-control")
Placeholders == SelectSeq(controls, LAMBDA b : b.tag = "p")

\* C1: once a response has been processed, the panel holds one control
\* block per gpio_write entry, in order, and none besides; in each block the
\* button of the reported level is the highlighted one and the other is
\* not, whether the level came as "HIGH", "LOW", 1 or 0.
C1_ButtonsFollowLevel ==
    shown.seen =>
        /\ Len(Blocks) = Len(WriteEntries)
        /\ \A k \in 1..Len(Blocks) :
              /\ Blocks[k].pin = WriteEntries[k].pin
              /\ IsHigh(WriteEntries[k].state) =>
                    Blocks[k].high = "btn-success" /\ Blocks[k].low = "btn-secondary"
              /\ IsLow(WriteEntries[k].state) =>
                    Blocks[k].low = "btn-danger" /\ Blocks[k].high = "btn-secondary"

\* C2 as claimed: a click issues one POST with the block's pin and the
\* clicked value and no /api/pins request; every POST whose response has
\* arrived is followed by a re-fetch; a /api/pins request is issued only by
\* the timer or on the arrival of a POST response.
C2_Click ==
    last'.op = "Click" =>
        /\ postReqs' = Append(postReqs, [pin |-> last'.pin, value |-> last'.value,
                                         phase |-> "sent", ok |-> FALSE])
        /\ pinsReqs' = pinsReqs
C2_NotBefore ==
    Len(pinsReqs') > Len(pinsReqs) =>
        last'.op \in {"PinsTimer", "PostResolvedOk", "PostResolvedNotOk"}
C2_RefetchAfterEveryPost ==
    [][/\ C2_Click
       /\ C2_NotBefore
       /\ last'.op \in {"PostResolvedOk", "PostResolvedNotOk"} =>
             pinsReqs' = Append(pinsReqs, [phase |-> "sent", levels |-> NoLevels,
                                           older |-> FALSE])]_vars

\* C2 as amended: the re-fetch follows a POST answered with a 2xx status;
\* a POST answered otherwise, or one that failed, is followed by none.
C2_RefetchAfterOkPost ==
    [][/\ C2_Click
       /\ C2_NotBefore
       /\ last'.op = "PostResolvedOk" =>
             pinsReqs' = Append(pinsReqs, [phase |-> "sent", levels |-> NoLevels,
                                           older |-> FALSE])
       /\ last'.op \in {"PostResolvedNotOk", "PostRejected"} =>
             pinsReqs' = pinsReqs]_vars

\* a POST came back 2xx and its re-fetch is on the network
C2_Witness ==
    /\ last.op = "PostResolvedOk"
    /\ Len(pinsReqs) > 0
    /\ pinsReqs[Len(pinsReqs)].phase = "sent"

\* C5: once a response has been processed, an empty or missing pin list
\* leaves the heading, the placeholder and no control block; the panel never
\* holds the placeholder together with a control block; and it holds one
\* heading, at most one placeholder and only the blocks of this response,
\* whatever it held before.
C5_PlaceholderOrControls ==
    shown.seen =>
        /\ (~shown.data.hasPins \/ shown.data.pins = <<>>) =>
              controls = <<HEADER, PLACEHOLDER>>
        /\ ~(Len(Placeholders) > 0 /\ Len(Blocks) > 0)
        /\ Len(Placeholders) <= 1
        /\ Len(controls) = 1 + Len(Placeholders) + Len(Blocks)
        /\ controls[1] = HEADER
        /\ Len(Blocks) = Len(WriteEntries)
        /\ \A k \in 1..Len(Blocks) : Blocks[k].pin = WriteEntries[k].pin

\* an empty or missing list arrived at a panel that held control blocks
C5_Witness ==
    /\ shown.seen
    /\ last.op = "PinsResolved"
    /\ shown.before = "controls"
    /\ controls = <<HEADER, PLACEHOLDER>>

\* C6: the label reads "Auto-scroll: ON" exactly when the flag is set, and
\* two toggles from the present state give back the present flag and label.
C6_LabelFollowsFlag ==
    /\ (btnLabel = ARROW \o "Auto-scroll: ON") <=> autoScroll
    /\ (btnLabel = ARROW \o "Auto-scroll: OFF") <=> ~autoScroll
    /\ LET once == toggleResult(autoScroll)
           twice == toggleResult(once.autoScroll)
       IN /\ twice.autoScroll = autoScroll
          /\ twice.label = btnLabel
          /\ once.label # btnLabel

\* the button has been clicked an even number of times, at least twice
C6_Witness ==
    /\ last.op = "toggleAutoScroll"
    /\ autoScroll
    /\ btnLabel = ARROW \o "Auto-scroll: ON"

\* C7: a call that failed (the fetch or the parsing of the body rejected,
\* or the POST came back non-2xx) changes nothing on the page, takes its
\* request off the network and puts none on it, leaves both timers
\* registered, and a rejected call writes its message to the console.
FailedCalls == {"PinsRejected", "PostRejected", "SerialRejected", "PostResolvedNotOk"}

PinsPoll == {"PinsTimer", "PinsResolved", "PinsRejected"}
SerialPoll == {"SerialTimer", "SerialResolved", "SerialRejected"}

C8_Idempotent ==
    shown.seen =>
        RenderPins(markers, controls, shown.data) = [markers |-> markers, controls |-> controls]

C8_PollsIndependent ==
    /\ []C8_Idempotent
    /\ [][/\ last'.op \in PinsPoll =>
                UNCHANGED <<serialMonitor, scrollTop, autoScroll, btnLabel,
                            serialReqs, postReqs, devLevel>>
          /\ last'.op \in SerialPoll =>
                UNCHANGED <<markers, controls, shown, autoScroll, btnLabel,
                            pinsReqs, postReqs, devLevel>>
          /\ last'.op = "SerialResolved" =>
                \E logs \in SerialResponses : serialMonitor' = Join(logs, "<br>")]_vars

\* a /api/serial response was processed between the arrival of a
\* /api/pins response at the browser and its processing, after an earlier
\* /api/pins response had been displayed
C8_Witness ==
    /\ last.op = "SerialResolved"
    /\ shown.seen
    /\ Len(pinsReqs) > 0
    /\ pinsReqs[1].phase = "answered"
    /\ serialMonitor = "a<br>a"

\* C9: once a response has been processed, the marker of every entry whose
\* pin is on the board is highlighted exactly when the entry's state is
\* "HIGH" or 1.
C9_MarkerFollowsState ==
    shown.seen =>
        \A k \in 1..Len(shown.data.pins) :
            LET e == shown.data.pins[k]
            IN e.pin \in BoardPins => (markers[e.pin] <=> IsHigh(e.state))

\* a marker that was highlighted lost the highlight on a 0 or "LOW"
C9_Witness ==
    /\ shown.seen
    /\ last.op = "PinsResolved"
    /\ 2 \in shown.lit
    /\ ~markers[2]
    /\ \E k \in 1..Len(shown.data.pins) :
          shown.data.pins[k].pin = 2 /\ shown.data.pins[k].state = JsNum(0)

\* C10: the response on display never belongs to a request issued before
\* the request whose response it replaced.
C10_NoStaleOverwrite == ~shown.stale

-----------------------------------------------------------------------------
(* Properties of app_main *)

LoopEntered == fw.pulses > 0

C4_InitFailureIsFatal ==
    fw.initFailed =>
        /\ fw.pc = "aborted"
        /\ fw.pulses = 0
        /\ fw.led = 0
        /\ fw.lines = 0
        /\ fw.logged.sensor = ""

\* adc_oneshot_config_channel failed after adc_oneshot_new_unit succeeded
C4_Witness ==
    /\ fw.initFailed
    /\ fw.pc = "aborted"

====
